---------------------------- MODULE Spec2Model ----------------------------
(***************************************************************************)
(* Calendar & Scheduling page of the business dashboard                    *)
(* (src/pages/2_Calendar.py) with the spreadsheet adapter it reads through *)
(* (src/utils/gsheet.py).                                                  *)
(*                                                                         *)
(* Dates are records [year, month, day] (datetime.date), a time of day is  *)
(* a number of minutes after midnight (datetime.time as the forms produce  *)
(* it, "%H:%M"), and a datetime is the number of minutes since the start   *)
(* of proleptic day 0, so that datetime + timedelta(minutes) and the       *)
(* comparisons of the source are integer arithmetic.                       *)
(***************************************************************************)
EXTENDS Integers, Sequences, FiniteSets, TLC

VARIABLES
    \* ---- show_calendar_view: the window controls and what they resolve to
    selected_date,      \* st.date_input("Select Date")
    view_mode,          \* st.selectbox("View Mode", ...)
    window,             \* the (start, end) pair the branch on view_mode computes, or NoWindow
    raised,             \* the exception the window computation raised, or "none"
    seen,               \* per view mode, the window last computed for selected_date
    heatmap_range,      \* (month_start, month_end) of create_calendar_heatmap, or NoWindow
    filter_status,      \* st.selectbox("Filter Status", ...) of the calendar view
    filtered_df,        \* filtered_df of show_calendar_view, or NoFrame
    \* ---- show_appointments_list: its filter controls and the frame it edits
    date_filter,        \* st.date_input("From Date")
    end_date_filter,    \* st.date_input("To Date")
    status_filter,      \* st.selectbox("Status Filter", ...)
    service_filter,     \* st.selectbox("Service Filter", ...)
    list_filtered_df,   \* filtered_df of show_appointments_list, or NoFrame
    \* ---- the handlers that write the worksheet
    now,                \* the wall clock, in ticks of half a second
    last_op,            \* the last writing handler run: its inputs and its outcome
    sess,               \* per browser session: a schedule submission in progress
    \* ---- login, logout and the authentication gate
    ss_keys,            \* the keys present in st.session_state
    ss,                 \* the values of the session keys the gate reads and writes
    clock,              \* datetime.now(), in minutes
    advances,           \* how often the clock has been advanced
    auth_run,           \* where the current script run stands and what it last called
    \* ---- the appointments worksheet and the session that reads it
    sheet,              \* rows of the "appointments" worksheet, in sheet order
    gsheets_creds,      \* "gsheets_creds" in st.session_state
    data_cache,         \* st.session_state.data_cache["appointments_0"]["data"], or NoData
    cache_dates,        \* how the cached table holds its Date column: "str" as read,
                        \* "date" once converted to date objects, "none" with no entry
    \* ---- check_scheduling_conflict: its arguments, its locals at return, its result
    candidate,          \* (appointment_date, appointment_time, duration), or NoCandidate
    df,                 \* what get_sheet_as_df returned to the check (NoData: None)
    has_conflict,       \* the boolean the function returned
    conflicting_booking,\* the booking handed back to the caller with it (the code hands none)
    scan_stop,          \* position in df of the row the loop returned True at, 0 if none
    check_raised        \* the exception the check raised, or "none"

vars == <<selected_date, view_mode, window, raised, seen, heatmap_range,
          filter_status, filtered_df,
          date_filter, end_date_filter, status_filter, service_filter, list_filtered_df,
          now, last_op, sess,
          ss_keys, ss, clock, advances, auth_run,
          sheet, gsheets_creds, data_cache, cache_dates,
          candidate, df, has_conflict, conflicting_booking, scan_stop, check_raised>>

windowVars == <<selected_date, view_mode, window, raised, seen, heatmap_range>>
filterVars == <<filter_status, filtered_df>>
listVars == <<date_filter, end_date_filter, status_filter, service_filter, list_filtered_df>>
sheetVars == <<sheet, gsheets_creds, data_cache, cache_dates>>
checkVars == <<candidate, df, has_conflict, conflicting_booking, scan_stop, check_raised>>

\* the variables of the handlers modelled further down
writeVars == <<now, last_op, sess>>
authVars == <<ss_keys, ss, clock, advances, auth_run>>
restVars == <<filterVars, listVars, writeVars, authVars>>

(***************************************************************************)
(* Bounds of the model.                                                    *)
(***************************************************************************)
FirstYear == 2023
LastYear == 2025
MaxRows == 2
MaxClock == 2
MaxAdvances == 3

(***************************************************************************)
(* datetime.date arithmetic, as the standard library computes it.          *)
(***************************************************************************)
IsLeap(y) == (y % 4 = 0) /\ ((y % 100 # 0) \/ (y % 400 = 0))

DaysInMonthTable(m) ==
    CASE m = 1 -> 31 [] m = 2 -> 28 [] m = 3 -> 31 [] m = 4 -> 30
      [] m = 5 -> 31 [] m = 6 -> 30 [] m = 7 -> 31 [] m = 8 -> 31
      [] m = 9 -> 30 [] m = 10 -> 31 [] m = 11 -> 30 [] m = 12 -> 31

DaysInMonth(y, m) == IF m = 2 /\ IsLeap(y) THEN 29 ELSE DaysInMonthTable(m)

RECURSIVE DaysBeforeMonthTable(_)
DaysBeforeMonthTable(m) ==
    IF m <= 1 THEN 0 ELSE DaysBeforeMonthTable(m - 1) + DaysInMonthTable(m - 1)

DaysBeforeMonth(y, m) ==
    DaysBeforeMonthTable(m) + (IF m > 2 /\ IsLeap(y) THEN 1 ELSE 0)

DaysBeforeYear(y) ==
    LET p == y - 1 IN p * 365 + (p \div 4) - (p \div 100) + (p \div 400)

\* date.toordinal(): 1 for 0001-01-01
Ymd2Ord(d) == DaysBeforeYear(d.year) + DaysBeforeMonth(d.year, d.month) + d.day

\* date.fromordinal(n), by the 400/100/4/1-year cycles
Ord2Ymd(ord) ==
    LET n0   == ord - 1
        n400 == n0 \div 146097
        r400 == n0 % 146097
        n100 == r400 \div 36524
        r100 == r400 % 36524
        n4   == r100 \div 1461
        r4   == r100 % 1461
        n1   == r4 \div 365
        n    == r4 % 365
        y    == n400 * 400 + 1 + n100 * 100 + n4 * 4 + n1
    IN  IF n1 = 4 \/ n100 = 4
        THEN [year |-> y - 1, month |-> 12, day |-> 31]
        ELSE LET leap == (n1 = 3) /\ (n4 # 24 \/ n100 = 3)
                 m0   == (n + 50) \div 32
                 p0   == DaysBeforeMonthTable(m0) + (IF m0 > 2 /\ leap THEN 1 ELSE 0)
                 m    == IF p0 > n THEN m0 - 1 ELSE m0
                 p    == IF p0 > n
                         THEN p0 - (DaysInMonthTable(m) + (IF m = 2 /\ leap THEN 1 ELSE 0))
                         ELSE p0
             IN  [year |-> y, month |-> m, day |-> n - p + 1]

\* mutant: Sunday is 0 (isoweekday() % 7)
WeekdaySundayFirst(d) == Ymd2Ord(d) % 7

\* date.weekday(): Monday is 0, Sunday is 6
Weekday(d) == (Ymd2Ord(d) + 6) % 7

\* date + timedelta(days = k), k possibly negative
AddDays(d, k) == Ord2Ymd(Ymd2Ord(d) + k)

\* date comparison: by (year, month, day)
DateLT(a, b) ==
    \/ a.year < b.year
    \/ a.year = b.year /\ a.month < b.month
    \/ a.year = b.year /\ a.month = b.month /\ a.day < b.day

DateLE(a, b) == a = b \/ DateLT(a, b)

\* every valid date of the modelled years
AllDates ==
    { [year |-> y, month |-> m, day |-> dd] :
        y \in FirstYear..LastYear, m \in 1..12, dd \in 1..31 }

ValidDates == { d \in AllDates : d.day <= DaysInMonth(d.year, d.month) }


(***************************************************************************)
(* show_calendar_view: the date range each view mode filters by.           *)
(***************************************************************************)
NoWindow == <<>>

\* the options of the "View Mode" selectbox
ViewModes == {"Day", "Week", "Month"}

\* a value the selectbox does not offer, for the branch's behaviour on it
UnsupportedModes == {"Year"}

Granularities == ViewModes \cup UnsupportedModes

\* view_mode == "Day": df['Date'] == selected_date
DayWindow(d) == <<d, d>>

\* mutant: the weekday is added instead of subtracted
WeekWindowForward(d) ==
    LET start_week == AddDays(d, Weekday(d))
        end_week   == AddDays(start_week, 6)
    IN  <<start_week, end_week>>

\* view_mode == "Week"
WeekWindow(d) ==
    LET start_week == AddDays(d, 0 - Weekday(d))
        end_week   == AddDays(start_week, 6)
    IN  <<start_week, end_week>>

\* mutant: December rolls over to January without moving to the next year
MonthWindowSameYear(d) ==
    LET start_month == [d EXCEPT !.day = 1]
        end_month   ==
            IF d.month = 12
            THEN AddDays([start_month EXCEPT !.month = 1], 0 - 1)
            ELSE AddDays([start_month EXCEPT !.month = d.month + 1], 0 - 1)
    IN  <<start_month, end_month>>

\* the else branch on view_mode ("Month view")
MonthWindow(d) ==
    LET start_month == [d EXCEPT !.day = 1]
        end_month   ==
            IF d.month = 12
            THEN AddDays([start_month EXCEPT !.year = d.year + 1, !.month = 1], 0 - 1)
            ELSE AddDays([start_month EXCEPT !.month = d.month + 1], 0 - 1)
    IN  <<start_month, end_month>>

\* the if / elif / else on view_mode
ResolveWindow(mode, d) ==
    IF mode = "Day" THEN DayWindow(d)
    ELSE IF mode = "Week" THEN WeekWindow(d)
    ELSE MonthWindow(d)

\* the branch raises nothing for any value of view_mode
ResolveRaises(mode, d) == "none"

\* create_calendar_heatmap: month_start and month_end
HeatmapMonthRange(d) ==
    LET month_start == [d EXCEPT !.day = 1]
        month_end   ==
            IF d.month = 12
            THEN AddDays([month_start EXCEPT !.year = d.year + 1, !.month = 1], 0 - 1)
            ELSE AddDays([month_start EXCEPT !.month = d.month + 1], 0 - 1)
    IN  <<month_start, month_end>>

\* mutant: the end of the window is excluded
InWindowExclusive(w, x) == DateLE(w[1], x) /\ DateLT(x, w[2])

\* df[(df['Date'] >= start) & (df['Date'] <= end)], for one date
InWindow(w, x) == DateLE(w[1], x) /\ DateLE(x, w[2])

\* One run of the window computation for the selected date and a view mode.
ShowWindow(m) ==
    /\ view_mode' = m
    /\ window' = ResolveWindow(m, selected_date)
    /\ raised' = ResolveRaises(m, selected_date)
    /\ seen' = [seen EXCEPT ![m] = ResolveWindow(m, selected_date)]
    /\ heatmap_range' = IF m = "Month" THEN HeatmapMonthRange(selected_date) ELSE NoWindow
    /\ UNCHANGED <<selected_date, sheetVars, checkVars, restVars>>


(***************************************************************************)
(* The appointments worksheet.  A row carries the columns the scheduling   *)
(* logic reads: Date, Time ("%H:%M", as minutes after midnight), Duration  *)
(* (minutes) and Status.                                                   *)
(***************************************************************************)
\* two consecutive dates
Day0 == [year |-> 2024, month |-> 12, day |-> 31]
Day1 == [year |-> 2025, month |-> 1,  day |-> 1]

ApptDates == {Day0, Day1}

\* 10:00, 10:15 and 10:30
ApptTimes == {600, 615, 630}

\* two of the options of the "Duration (minutes)" selectbox
Durations == {15, 30}

\* statuses a stored row can carry (the list editor's options include them)
SheetStatuses == {"Scheduled", "Cancelled", "No-show"}

\* The rows a modelled worksheet is made of: every time, duration and status
\* on the first date, and one active booking on the second.
Rows ==
    [Date : {Day0}, Time : ApptTimes, Duration : Durations, Status : SheetStatuses]
    \cup { [Date |-> Day1, Time |-> 615, Duration |-> 30, Status |-> "Scheduled"] }

\* The candidates submitted to the check: every time and duration on the
\* first date, and one candidate on the second.
Candidates ==
    [date : {Day0}, time : ApptTimes, duration : Durations]
    \cup { [date |-> Day1, time |-> 600, duration |-> 30] }

RECURSIVE SeqsUpTo(_, _)
SeqsUpTo(S, n) ==
    IF n = 0 THEN {<<>>}
    ELSE LET shorter == SeqsUpTo(S, n - 1)
         IN  shorter \cup { Append(q, x) : q \in { r \in shorter : Len(r) = n - 1 }, x \in S }

BoundedSheets == SeqsUpTo(Rows, MaxRows)

\* a DataFrame as get_sheet_as_df hands it back; NoData is None
NoData == [ok |-> FALSE, rows |-> <<>>]
Loaded(rows) == [ok |-> TRUE, rows |-> rows]

\* get_sheet_as_df("appointments"): None without credentials or when the
\* client, the open or the read fails (fetch_ok = FALSE); else the rows
GetSheetAsDf(fetch_ok) ==
    IF ~gsheets_creds \/ ~fetch_ok THEN NoData ELSE Loaded(sheet)

\* the cache entry get_sheet_as_df leaves behind: written only on success
CacheAfterGet(fetch_ok) ==
    IF GetSheetAsDf(fetch_ok).ok THEN GetSheetAsDf(fetch_ok) ELSE data_cache

\* The cached "data" is the very DataFrame get_sheet_as_df returns, so a
\* caller that assigns df['Date'] = pd.to_datetime(df['Date']).dt.date on a
\* non-empty table (converts = TRUE) converts the cached Date column too.
CacheDatesAfterGet(fetch_ok, converts) ==
    IF ~GetSheetAsDf(fetch_ok).ok THEN cache_dates
    ELSE IF converts /\ GetSheetAsDf(fetch_ok).rows # <<>> THEN "date"
    ELSE "str"

(***************************************************************************)
(* check_scheduling_conflict                                               *)
(***************************************************************************)
\* datetime.combine(date, time), in minutes
Combine(d, t) == Ymd2Ord(d) * (24 * 60) + t

\* mutant: the loop skips Cancelled rows only
SkippedStatusesCancelledOnly == {"Cancelled"}

\* statuses the loop skips
SkippedStatuses == {"Cancelled", "No-show"}

\* mutant: the comparisons are not strict
OverlapsInclusive(new_start, new_end, existing_start, existing_end) ==
    (new_start <= existing_end) /\ (new_end >= existing_start)

\* mutant: only asks whether the new start falls inside the existing booking
OverlapsStartInside(new_start, new_end, existing_start, existing_end) ==
    (new_start < existing_end) /\ (new_start >= existing_start)

\* the overlap test of the loop body
Overlaps(new_start, new_end, existing_start, existing_end) ==
    (new_start < existing_end) /\ (new_end > existing_start)

\* one iteration of the loop body on row `existing`: TRUE when it returns True
RowConflicts(appointment_date, appointment_time, duration, existing) ==
    LET new_start      == Combine(appointment_date, appointment_time)
        new_end        == new_start + duration
        existing_start == Combine(appointment_date, existing.Time)
        existing_end   == existing_start + existing.Duration
    IN  /\ existing.Status \notin SkippedStatuses
        /\ Overlaps(new_start, new_end, existing_start, existing_end)

\* mutant: no filter on the date
SameDayAnyDate(rows, appointment_date) == 1..Len(rows)

\* df[df['Date'] == appointment_date], as the positions kept
SameDay(rows, appointment_date) ==
    { i \in 1..Len(rows) : rows[i].Date = appointment_date }

\* the for loop over same_day_appointments, from position i on: the position
\* of the row it returns True at, or 0 when it runs to the end
RECURSIVE ScanFrom(_, _, _, _, _)

\* mutant: the rows are sorted by Time first, so the loop returns at the
\* earliest-starting conflicting row
ScanFromEarliest(rows, i, appointment_date, appointment_time, duration) ==
    LET hits == { k \in i..Len(rows) :
                    /\ k \in SameDay(rows, appointment_date)
                    /\ RowConflicts(appointment_date, appointment_time, duration, rows[k]) }
    IN  IF hits = {} THEN 0
        ELSE CHOOSE k \in hits :
                \A j \in hits : rows[k].Time < rows[j].Time
                                   \/ (rows[k].Time = rows[j].Time /\ k <= j)

ScanFrom(rows, i, appointment_date, appointment_time, duration) ==
    IF i > Len(rows) THEN 0
    ELSE IF /\ i \in SameDay(rows, appointment_date)
            /\ RowConflicts(appointment_date, appointment_time, duration, rows[i])
         THEN i
         ELSE ScanFrom(rows, i + 1, appointment_date, appointment_time, duration)

\* mutant: a missing or empty table is answered True
ConflictPositionFailClosed(loaded, appointment_date, appointment_time, duration) ==
    IF ~gsheets_creds THEN 0
    ELSE IF ~loaded.ok \/ loaded.rows = <<>> THEN Len(loaded.rows) + 1
    ELSE ScanFrom(loaded.rows, 1, appointment_date, appointment_time, duration)

\* where the function returns: 0 for every "return False"
ConflictPosition(loaded, appointment_date, appointment_time, duration) ==
    IF ~gsheets_creds THEN 0
    ELSE IF ~loaded.ok \/ loaded.rows = <<>> THEN 0
    ELSE ScanFrom(loaded.rows, 1, appointment_date, appointment_time, duration)

NoCandidate == <<>>
NoBooking == <<>>

\* the function raises nothing on rows whose Time is "%H:%M" and whose
\* Duration is an integer
CheckRaises(loaded, appointment_date, appointment_time, duration) == "none"

\* what the caller receives besides the boolean: the function returns a bare
\* True or False
ReportedBooking(loaded, pos) == NoBooking

CheckSchedulingConflict(appointment_date, appointment_time, duration, fetch_ok) ==
    LET loaded == GetSheetAsDf(fetch_ok)
        pos    == ConflictPosition(loaded, appointment_date, appointment_time, duration)
    IN  /\ candidate' = << [date |-> appointment_date, time |-> appointment_time,
                            duration |-> duration] >>
        /\ df' = loaded
        /\ data_cache' = CacheAfterGet(fetch_ok)
        /\ cache_dates' = CacheDatesAfterGet(fetch_ok, TRUE)
        /\ scan_stop' = pos
        /\ has_conflict' = (pos # 0)
        /\ conflicting_booking' = ReportedBooking(loaded, pos)
        /\ check_raised' = CheckRaises(loaded, appointment_date, appointment_time, duration)
        /\ UNCHANGED <<sheet, gsheets_creds, windowVars, restVars>>


(***************************************************************************)
(* Specifications.                                                         *)
(***************************************************************************)
WindowIdle ==
    /\ view_mode = "Day"
    /\ window = NoWindow
    /\ raised = "none"
    /\ seen = [m \in Granularities |-> NoWindow]
    /\ heatmap_range = NoWindow

\* a filtered DataFrame: the index labels kept (positions in the table
\* read) and their rows, in order; NoFrame before the handler has filtered
NoFrame == [ok |-> FALSE, index |-> <<>>, rows |-> <<>>]

\* the browser sessions of the two-session runs
Sessions == {1, 2}

\* no writing handler has run
NoOp == [op |-> "none", index |-> 0, status |-> "none", written |-> FALSE,
         returned |-> "none"]

\* a session that has not submitted the schedule form
NoSubmission == [pc |-> "idle", form |-> <<>>, has_conflict |-> FALSE,
                 saw_peer |-> FALSE, new_appointment |-> <<>>,
                 existing_df |-> NoData, saved |-> FALSE, cache |-> NoData]

WriteIdle ==
    /\ now = 0
    /\ last_op = NoOp
    /\ sess = [s \in Sessions |-> NoSubmission]

\* values of the session keys while the keys are absent
AbsentValues == [logged_in |-> FALSE, user_email |-> "None", login_time |-> -1,
                 session_expiry |-> -1, last_activity |-> -1, last_login |-> -1]

\* no script has run in the session
NoRun == [pc |-> "idle", last_call |-> "none", last_check |-> "none", login |-> <<>>,
          cleared |-> {}, checked_valid |-> FALSE]

\* a fresh browser session: st.session_state is empty
AuthIdle ==
    /\ ss_keys = {}
    /\ ss = AbsentValues
    /\ clock = 0
    /\ advances = 0
    /\ auth_run = NoRun

\* controls and results of the handlers modelled further down, before a run
RestIdle ==
    /\ WriteIdle
    /\ AuthIdle
    /\ filter_status = "All"
    /\ filtered_df = NoFrame
    /\ date_filter = [year |-> 2024, month |-> 12, day |-> 1]
    /\ end_date_filter = [year |-> 2025, month |-> 1, day |-> 5]
    /\ status_filter = "All"
    /\ service_filter = "All"
    /\ list_filtered_df = NoFrame

CheckIdle ==
    /\ candidate = NoCandidate
    /\ df = NoData
    /\ has_conflict = FALSE
    /\ conflicting_booking = NoBooking
    /\ scan_stop = 0
    /\ check_raised = "none"

\* The scheduling check against a worksheet of up to MaxRows rows, in a
\* session with or without Google Sheets credentials.
InitConflict ==
    /\ selected_date = [year |-> 2024, month |-> 2, day |-> 20]
    /\ WindowIdle
    /\ sheet \in BoundedSheets
    /\ gsheets_creds \in BOOLEAN
    /\ data_cache = NoData
    /\ cache_dates = "none"
    /\ CheckIdle
    /\ RestIdle

NextConflict ==
    \E c \in Candidates, fetch_ok \in BOOLEAN :
        CheckSchedulingConflict(c.date, c.time, c.duration, fetch_ok)

SpecConflict == InitConflict /\ [][NextConflict]_vars

\* The calendar view's window for every date of the modelled years, the view
\* mode drawn from the selectbox options.
InitWindow ==
    /\ selected_date \in ValidDates
    /\ WindowIdle
    /\ sheet = <<>>
    /\ gsheets_creds = FALSE
    /\ data_cache = NoData
    /\ cache_dates = "none"
    /\ CheckIdle
    /\ RestIdle

NextWindow == \E m \in ViewModes : ShowWindow(m)

SpecWindow == InitWindow /\ [][NextWindow]_vars

\* The same branch applied to any granularity value, supported or not.
NextResolve == \E m \in Granularities : ShowWindow(m)

SpecResolve == InitWindow /\ [][NextResolve]_vars


(***************************************************************************)
(* Properties of check_scheduling_conflict (checked under SpecConflict).   *)
(* They speak of the last call: its candidate, the rows it was given (df)  *)
(* and what it returned.                                                   *)
(***************************************************************************)
Checked == candidate # NoCandidate

Cand == candidate[1]

\* The reference predicate on a candidate c and a row r, in minutes of the
\* shared day: same date, an active status, and c.start < r.end /\ r.start < c.end.
RefOverlap(c, r) ==
    /\ r.Date = c.date
    /\ r.Status # "Cancelled" /\ r.Status # "No-show"
    /\ c.time < r.Time + r.Duration
    /\ r.Time < c.time + c.duration

RefOverlapping(c, rows) == { i \in 1..Len(rows) : RefOverlap(c, rows[i]) }

\* the intervals meet on the candidate's day without excluding the row's status
TimesOverlap(c, r) ==
    /\ r.Date = c.date
    /\ c.time < r.Time + r.Duration
    /\ r.Time < c.time + c.duration

\* r ends exactly when c starts, or c ends exactly when r starts
Contiguous(c, r) ==
    /\ r.Date = c.date
    /\ (r.Time + r.Duration = c.time \/ c.time + c.duration = r.Time)

\* C1: the check reports a conflict if and only if some row it was given
\* starts on the candidate's date, is neither Cancelled nor No-show, and
\* satisfies candidate.start < row.end and row.start < candidate.end.
C1_ConflictIffReference ==
    Checked => (has_conflict <=> (df.ok /\ RefOverlapping(Cand, df.rows) # {}))

\* C1 witness: a conflict reported on a sheet that also holds a row of
\* another day whose times overlap the candidate's.
C1_Witness ==
    /\ Checked /\ df.ok /\ has_conflict
    /\ \E i \in 1..Len(df.rows) :
          /\ df.rows[i].Date # Cand.date
          /\ df.rows[i].Status = "Scheduled"
          /\ Cand.time < df.rows[i].Time + df.rows[i].Duration
          /\ df.rows[i].Time < Cand.time + Cand.duration

\* C2: a Cancelled or No-show row is never the row the check stops at nor
\* the booking it reports, and when every row whose times overlap the
\* candidate is Cancelled or No-show the check reports no conflict.
C2_ExclusionInvariant ==
    Checked =>
        /\ scan_stop # 0 => df.rows[scan_stop].Status \notin {"Cancelled", "No-show"}
        /\ conflicting_booking # NoBooking =>
              conflicting_booking[1].Status \notin {"Cancelled", "No-show"}
        /\ (\A i \in 1..Len(df.rows) :
               TimesOverlap(Cand, df.rows[i]) =>
                   df.rows[i].Status \in {"Cancelled", "No-show"})
             => ~has_conflict

\* C2 witness: the rows given hold a Cancelled and a No-show booking that
\* both overlap the candidate in time, and no conflict is reported.
C2_Witness ==
    /\ Checked /\ df.ok /\ ~has_conflict
    /\ \E i, j \in 1..Len(df.rows) :
          /\ TimesOverlap(Cand, df.rows[i]) /\ df.rows[i].Status = "Cancelled"
          /\ TimesOverlap(Cand, df.rows[j]) /\ df.rows[j].Status = "No-show"

\* C3: a row that ends exactly when the candidate starts, or starts exactly
\* when it ends, is never the row the check stops at; when every active row
\* of the candidate's day is contiguous to it, no conflict is reported.
C3_ContiguityNonOverlap ==
    Checked =>
        /\ scan_stop # 0 => ~Contiguous(Cand, df.rows[scan_stop])
        /\ (\A i \in 1..Len(df.rows) :
               (df.rows[i].Date = Cand.date /\ df.rows[i].Status = "Scheduled")
                   => Contiguous(Cand, df.rows[i]))
             => ~has_conflict

\* C3 witness: an active booking of the same day ends at the candidate's
\* start, another starts at the candidate's end, and no conflict is reported.
C3_Witness ==
    /\ Checked /\ df.ok /\ ~has_conflict
    /\ \E i, j \in 1..Len(df.rows) :
          /\ df.rows[i].Date = Cand.date /\ df.rows[i].Status = "Scheduled"
          /\ df.rows[i].Time + df.rows[i].Duration = Cand.time
          /\ df.rows[j].Date = Cand.date /\ df.rows[j].Status = "Scheduled"
          /\ Cand.time + Cand.duration = df.rows[j].Time

\* the candidate and a row as (start, end) in minutes
CandInterval(c) == <<Combine(c.date, c.time), Combine(c.date, c.time) + c.duration>>
RowInterval(r) == <<Combine(r.Date, r.Time), Combine(r.Date, r.Time) + r.Duration>>

\* the check of candidate y against the single row x
SwappedConflict(x, y) ==
    ScanFrom(<< [Date |-> x.date, Time |-> x.time, Duration |-> x.duration,
                 Status |-> "Scheduled"] >>,
             1, y.Date, y.Time, y.Duration) # 0

\* C4: the overlap test is symmetric in its two intervals, and checking X
\* against the one active same-day booking Y reports what checking Y
\* against X reports.
C4_OverlapSymmetry ==
    /\ Checked =>
          \A i \in 1..Len(df.rows) :
              LET a == CandInterval(Cand)
                  b == RowInterval(df.rows[i])
              IN  Overlaps(a[1], a[2], b[1], b[2]) <=> Overlaps(b[1], b[2], a[1], a[2])
    /\ (Checked /\ df.ok /\ Len(df.rows) = 1
          /\ df.rows[1].Date = Cand.date /\ df.rows[1].Status = "Scheduled")
         => (has_conflict <=> SwappedConflict(Cand, df.rows[1]))

\* C4 witness: a candidate checked against one active same-day booking that
\* starts inside it and ends after it, with a conflict reported.
C4_Witness ==
    /\ Checked /\ df.ok /\ Len(df.rows) = 1 /\ has_conflict
    /\ df.rows[1].Date = Cand.date /\ df.rows[1].Status = "Scheduled"
    /\ Cand.time < df.rows[1].Time
    /\ Cand.time + Cand.duration < df.rows[1].Time + df.rows[1].Duration

\* the first row, in the order given, that the reference predicate accepts
FirstOverlapping(c, rows) ==
    CHOOSE i \in RefOverlapping(c, rows) : \A j \in RefOverlapping(c, rows) : i <= j

C6_EmptyNoConflict ==
    (Checked /\ df.rows = <<>>) => (~has_conflict /\ check_raised = "none")

\* C6 witness: the check ran against a worksheet that loaded with no rows.
C6_Witness == Checked /\ df.ok /\ df.rows = <<>>


(***************************************************************************)
(* Properties of the calendar view's windows (checked under SpecWindow).   *)
(* seen[m] is the window computed for selected_date in view mode m.        *)
(***************************************************************************)
\* a date as the number yyyymmdd, for comparisons
DateKey(d) == d.year * 10000 + d.month * 100 + d.day

\* window a lies inside window b
WindowSubset(a, b) == DateKey(b[1]) <= DateKey(a[1]) /\ DateKey(a[2]) <= DateKey(b[2])

\* the number of days of month m of year y
LastDayOf(y, m) ==
    IF m \in {4, 6, 9, 11} THEN 30
    ELSE IF m # 2 THEN 31
    ELSE IF y % 400 = 0 \/ (y % 4 = 0 /\ y % 100 # 0) THEN 29 ELSE 28

SameMonth(a, b) == a.year = b.year /\ a.month = b.month

AllSeen == \A m \in ViewModes : seen[m] # NoWindow

\* C7 as stated: for every date the Day window lies inside the Week window
\* and the Week window lies inside the Month window.
C7_WindowPartition ==
    AllSeen => /\ WindowSubset(seen["Day"], seen["Week"])
               /\ WindowSubset(seen["Week"], seen["Month"])

\* C7 amended: for every date the Day window lies inside the Week window and
\* inside the Month window; the Week window lies inside the Month window
\* exactly when the Monday and the Sunday of the week both fall in the
\* month of the date.
C7_DayInWeekAndMonth ==
    AllSeen => /\ WindowSubset(seen["Day"], seen["Week"])
               /\ WindowSubset(seen["Day"], seen["Month"])
               /\ WindowSubset(seen["Week"], seen["Month"])
                    <=> (/\ SameMonth(seen["Week"][1], selected_date)
                         /\ SameMonth(seen["Week"][2], selected_date))

\* C7 witness: the three windows of Thursday 2024-02-01, whose week starts
\* on Monday 2024-01-29.
C7_Witness ==
    /\ AllSeen
    /\ selected_date = [year |-> 2024, month |-> 2, day |-> 1]
    /\ seen["Week"][1] = [year |-> 2024, month |-> 1, day |-> 29]
    /\ seen["Month"][1] = [year |-> 2024, month |-> 2, day |-> 1]

\* C8: the Week window starts on the Monday of the week containing the
\* date (the date minus its weekday), ends six days later and contains the
\* date, also across month and year boundaries; 2024-02-20 gives
\* (2024-02-19, 2024-02-25).
C8_WeekWindow ==
    seen["Week"] # NoWindow =>
        LET start == seen["Week"][1]
            end   == seen["Week"][2]
        IN  /\ start \in { x \in [year : {start.year}, month : 1..12, day : 1..31] :
                             x.day <= LastDayOf(x.year, x.month) }
            /\ end \in { x \in [year : {end.year}, month : 1..12, day : 1..31] :
                           x.day <= LastDayOf(x.year, x.month) }
            \* Monday: a whole number of weeks from Monday 2024-02-19
            /\ (Ymd2Ord(start) - 738935) % 7 = 0
            /\ Ymd2Ord(start) = Ymd2Ord(selected_date) - Weekday(selected_date)
            /\ Ymd2Ord(end) = Ymd2Ord(start) + 6
            /\ DateKey(start) <= DateKey(selected_date)
            /\ DateKey(selected_date) <= DateKey(end)
            /\ Ymd2Ord(selected_date) - Ymd2Ord(start) \in 0..6
            /\ selected_date = [year |-> 2024, month |-> 2, day |-> 20] =>
                  /\ start = [year |-> 2024, month |-> 2, day |-> 19]
                  /\ end = [year |-> 2024, month |-> 2, day |-> 25]

\* C8 witness: the week of 2024-12-31, which ends in the next year.
C8_Witness ==
    /\ selected_date = [year |-> 2024, month |-> 12, day |-> 31]
    /\ seen["Week"] = << [year |-> 2024, month |-> 12, day |-> 30],
                         [year |-> 2025, month |-> 1, day |-> 5] >>

\* C9: the Month window, and the heatmap's month range, run from the first
\* day of the date's month to the last calendar day of that same month, in
\* December to 31 December of the date's own year; 2024-12-15 gives
\* (2024-12-01, 2024-12-31).
C9_MonthWindow ==
    LET expected ==
            << [year |-> selected_date.year, month |-> selected_date.month, day |-> 1],
               [year |-> selected_date.year, month |-> selected_date.month,
                day |-> LastDayOf(selected_date.year, selected_date.month)] >>
    IN  /\ seen["Month"] # NoWindow => seen["Month"] = expected
        /\ heatmap_range # NoWindow => heatmap_range = expected
        /\ (seen["Month"] # NoWindow
              /\ selected_date = [year |-> 2024, month |-> 12, day |-> 15]) =>
                seen["Month"] = << [year |-> 2024, month |-> 12, day |-> 1],
                                   [year |-> 2024, month |-> 12, day |-> 31] >>

\* C9 witness: the Month window and the heatmap's range for 2024-12-15.
C9_Witness ==
    /\ selected_date = [year |-> 2024, month |-> 12, day |-> 15]
    /\ seen["Month"] # NoWindow /\ seen["Month"][2].day = 31
    /\ heatmap_range # NoWindow

FilterFirst == [year |-> 2024, month |-> 12, day |-> 1]
FilterLast == [year |-> 2025, month |-> 1, day |-> 5]
FilterDates == {FilterFirst, Day0, FilterLast}
FilterServices == {"Consultation", "Training"}

\* rows of the table the two views read
FilterRows ==
    [Date : FilterDates, Status : {"Scheduled"}, Service : {"Consultation"}]
    \cup {[Date |-> Day0, Status |-> "Cancelled", Service |-> "Consultation"],
          [Date |-> Day0, Status |-> "Scheduled", Service |-> "Training"]}
FilterSheets == SeqsUpTo(FilterRows, MaxRows + 1)

\* options of the two status selectboxes
StatusFilterOptions == {"All", "Scheduled", "Completed", "Cancelled"}

\* a freshly read table as a frame: pandas labels its rows by position
FrameOf(rows) == [ok |-> TRUE, index |-> [k \in 1..Len(rows) |-> k], rows |-> rows]

\* frame[mask] with the positions of the mask in place of its labels
RECURSIVE TakeByPosition(_, _)
TakeByPosition(frame, keep) ==
    IF frame.rows = <<>> THEN [ok |-> TRUE, index |-> <<>>, rows |-> <<>>]
    ELSE LET n    == Len(frame.rows)
             init == TakeByPosition([ok |-> TRUE,
                                     index |-> SubSeq(frame.index, 1, n - 1),
                                     rows |-> SubSeq(frame.rows, 1, n - 1)], keep)
         IN  IF n \in keep
             THEN [ok |-> TRUE, index |-> Append(init.index, frame.index[n]),
                   rows |-> Append(init.rows, frame.rows[n])]
             ELSE init

\* frame[mask]: the rows whose index label the boolean mask marks, in the
\* frame's order and under their labels
RECURSIVE TakeLabels(_, _)
TakeLabels(frame, keep) ==
    IF frame.rows = <<>> THEN [ok |-> TRUE, index |-> <<>>, rows |-> <<>>]
    ELSE LET n    == Len(frame.rows)
             init == TakeLabels([ok |-> TRUE,
                                 index |-> SubSeq(frame.index, 1, n - 1),
                                 rows |-> SubSeq(frame.rows, 1, n - 1)], keep)
         IN  IF frame.index[n] \in keep
             THEN [ok |-> TRUE, index |-> Append(init.index, frame.index[n]),
                   rows |-> Append(init.rows, frame.rows[n])]
             ELSE init

\* the labels a row-wise condition marks
DayMask(frame, d) ==
    {frame.index[k] : k \in {j \in 1..Len(frame.rows) : frame.rows[j].Date = d}}
RangeMask(frame, w) ==
    {frame.index[k] : k \in {j \in 1..Len(frame.rows) : InWindow(w, frame.rows[j].Date)}}
StatusMask(frame, status) ==
    {frame.index[k] : k \in {j \in 1..Len(frame.rows) : frame.rows[j].Status = status}}
ServiceMask(frame, service) ==
    {frame.index[k] : k \in {j \in 1..Len(frame.rows) : frame.rows[j].Service = service}}

\* the view-mode branches of show_calendar_view
DateFiltered(frame, mode, d) ==
    IF mode = "Day" THEN TakeLabels(frame, DayMask(frame, d))
    ELSE IF mode = "Week" THEN TakeLabels(frame, RangeMask(frame, WeekWindow(d)))
    ELSE TakeLabels(frame, RangeMask(frame, MonthWindow(d)))

StatusFiltered(frame, status) ==
    IF status # "All" THEN TakeLabels(frame, StatusMask(frame, status)) ELSE frame

ServiceFiltered(frame, service) ==
    IF service # "All" THEN TakeLabels(frame, ServiceMask(frame, service)) ELSE frame

\* filtered_df of show_calendar_view
CalendarFilter(frame, mode, d, status) ==
    StatusFiltered(DateFiltered(frame, mode, d), status)

\* filtered_df of show_appointments_list
ListFilter(frame, from, to, status, service) ==
    ServiceFiltered(StatusFiltered(TakeLabels(frame, RangeMask(frame, <<from, to>>)), status),
                    service)

\* show_calendar_view with the controls as they stand: read the table,
\* convert its dates, filter by window and status, draw the heatmap in
\* Month mode.  Without credentials, or with no or an empty table, nothing
\* is filtered.
ShowCalendarView(fetch_ok) ==
    LET loaded == GetSheetAsDf(fetch_ok)
        shown  == loaded.ok /\ loaded.rows # <<>>
    IN  /\ gsheets_creds
        /\ data_cache' = CacheAfterGet(fetch_ok)
        /\ cache_dates' = CacheDatesAfterGet(fetch_ok, TRUE)
        /\ filtered_df' = IF shown
                          THEN CalendarFilter(FrameOf(loaded.rows), view_mode,
                                              selected_date, filter_status)
                          ELSE NoFrame
        /\ window' = IF shown THEN ResolveWindow(view_mode, selected_date) ELSE window
        /\ seen' = IF shown
                   THEN [seen EXCEPT ![view_mode] = ResolveWindow(view_mode, selected_date)]
                   ELSE seen
        /\ heatmap_range' = IF shown /\ view_mode = "Month"
                            THEN HeatmapMonthRange(selected_date) ELSE heatmap_range
        /\ UNCHANGED <<authVars, selected_date, view_mode, raised, filter_status, listVars,
                       writeVars, sheet, gsheets_creds, checkVars>>

\* show_appointments_list with the controls as they stand: it filters a copy
\* of the table by date range, status and service
ShowAppointmentsList(fetch_ok) ==
    LET loaded == GetSheetAsDf(fetch_ok)
        shown  == loaded.ok /\ loaded.rows # <<>>
    IN  /\ gsheets_creds
        /\ data_cache' = CacheAfterGet(fetch_ok)
        /\ cache_dates' = CacheDatesAfterGet(fetch_ok, FALSE)
        /\ list_filtered_df' = IF shown
                               THEN ListFilter(FrameOf(loaded.rows), date_filter,
                                               end_date_filter, status_filter, service_filter)
                               ELSE NoFrame
        /\ UNCHANGED <<authVars, windowVars, filterVars, date_filter, end_date_filter,
                       status_filter, service_filter, writeVars, sheet, gsheets_creds,
                       checkVars>>

\* the services the "Service Filter" selectbox offers: "All" and those present
ServiceOptions(rows) == {"All"} \cup {rows[k].Service : k \in 1..Len(rows)}

InitFilter ==
    /\ sheet \in FilterSheets
    /\ gsheets_creds = TRUE
    /\ data_cache = NoData
    /\ cache_dates = "none"
    /\ CheckIdle
    /\ window = NoWindow
    /\ raised = "none"
    /\ seen = [m \in Granularities |-> NoWindow]
    /\ heatmap_range = NoWindow
    /\ filtered_df = NoFrame
    /\ list_filtered_df = NoFrame
    /\ WriteIdle
    /\ AuthIdle
    /\ \/ /\ selected_date \in {Day0, Day1}
          /\ view_mode \in ViewModes
          /\ filter_status \in StatusFilterOptions
          /\ date_filter = FilterFirst
          /\ end_date_filter = FilterLast
          /\ status_filter = "All"
          /\ service_filter = "All"
       \/ /\ selected_date = Day0
          /\ view_mode = "Day"
          /\ filter_status = "All"
          /\ date_filter \in {FilterFirst, Day0}
          /\ end_date_filter \in {Day0, FilterLast}
          /\ status_filter \in {"All", "Cancelled"}
          /\ service_filter \in ServiceOptions(sheet)

NextFilter ==
    \/ \E fetch_ok \in BOOLEAN : ShowCalendarView(fetch_ok)
    \/ \E fetch_ok \in BOOLEAN : ShowAppointmentsList(fetch_ok)

SpecFilter == InitFilter /\ [][NextFilter]_vars

\* ---------------------------------------------------------------------------
\* Claims about filtering
\* ---------------------------------------------------------------------------

\* frame holds exactly the rows of the sheet at the positions in keep, each
\* under its position, in the sheet's order
ExactlyInOrder(frame, keep) ==
    /\ Len(frame.index) = Len(frame.rows)
    /\ \A j \in 1..(Len(frame.index) - 1) : frame.index[j] < frame.index[j + 1]
    /\ {frame.index[j] : j \in 1..Len(frame.index)} = keep
    /\ \A j \in 1..Len(frame.index) : frame.rows[j] = sheet[frame.index[j]]

\* row k of the sheet lies in [from, to], both ends included
DatedWithin(k, from, to) ==
    /\ DateKey(from) <= DateKey(sheet[k].Date)
    /\ DateKey(sheet[k].Date) <= DateKey(to)

\* row k of the sheet passes a selectbox value
Selected(value, option) == option = "All" \/ value = option

\* C11: the filtered table holds exactly the bookings dated within the window,
\* both ends included, whose status is the requested one when one is given,
\* in the order of the table read; the list view restricts by service as well.
C11_FilterByWindow ==
    /\ filtered_df.ok =>
         ExactlyInOrder(filtered_df,
            {k \in 1..Len(sheet) :
                /\ DatedWithin(k, window[1], window[2])
                /\ Selected(sheet[k].Status, filter_status)})
    /\ list_filtered_df.ok =>
         ExactlyInOrder(list_filtered_df,
            {k \in 1..Len(sheet) :
                /\ DatedWithin(k, date_filter, end_date_filter)
                /\ Selected(sheet[k].Status, status_filter)
                /\ Selected(sheet[k].Service, service_filter)})

\* a week view with a status chosen keeps two of three bookings, one of them
\* dated on the last day of the window
C11_Witness ==
    /\ filtered_df.ok
    /\ view_mode = "Week"
    /\ filter_status = "Scheduled"
    /\ Len(sheet) = 3
    /\ Len(filtered_df.rows) = 2
    /\ filtered_df.rows[1].Date # filtered_df.rows[2].Date
    /\ \E j \in 1..2 : filtered_df.rows[j].Date = window[2]

\* C12: filtering the filtered table again with the same window and status
\* returns it unchanged.
C12_FilterIdempotent ==
    /\ filtered_df.ok =>
         CalendarFilter(filtered_df, view_mode, selected_date, filter_status) = filtered_df
    /\ list_filtered_df.ok =>
         ListFilter(list_filtered_df, date_filter, end_date_filter,
                    status_filter, service_filter) = list_filtered_df

\* the filtered table holds the second and third booking of three
C12_Witness ==
    /\ filtered_df.ok
    /\ Len(sheet) = 3
    /\ filtered_df.index = <<2, 3>>
    /\ filter_status # "All"

\* ---------------------------------------------------------------------------
\* The conflict check on bookings and candidates of non-positive duration
\* ---------------------------------------------------------------------------

\* durations a worksheet cell or a caller can hold besides the form's choices
AnyDurations == {-15, 0, 30}

AnyDurationRows ==
    [Date : {Day0}, Time : {600, 615}, Duration : AnyDurations, Status : {"Scheduled"}]

AnyDurationCandidates == [date : {Day0}, time : {600}, duration : AnyDurations]

InitAnyDuration ==
    /\ selected_date = [year |-> 2024, month |-> 2, day |-> 20]
    /\ WindowIdle
    /\ sheet \in SeqsUpTo(AnyDurationRows, MaxRows)
    /\ gsheets_creds \in BOOLEAN
    /\ data_cache = NoData
    /\ cache_dates = "none"
    /\ CheckIdle
    /\ RestIdle

NextAnyDuration ==
    \E c \in AnyDurationCandidates, fetch_ok \in BOOLEAN :
        CheckSchedulingConflict(c.date, c.time, c.duration, fetch_ok)

SpecAnyDuration == InitAnyDuration /\ [][NextAnyDuration]_vars

\* the check was handed a candidate or an existing booking of duration <= 0
NonPositiveDuration ==
    \/ Cand.duration <= 0
    \/ \E k \in 1..Len(df.rows) : df.rows[k].Duration <= 0

\* C15: a candidate or existing booking of zero or negative duration is
\* rejected with InvalidIntervalError; the check returns no result for it.
C15_NonPositiveDurationRejected ==
    (Checked /\ NonPositiveDuration) => check_raised = "InvalidIntervalError"

\* ---------------------------------------------------------------------------
\* Frame of the conflict check
\* ---------------------------------------------------------------------------

\* C16: the check is a pure decision: a call leaves the existing bookings and
\* the cached copy of the appointments table exactly as they were.
C16_CheckLeavesSharedState ==
    [][/\ sheet' = sheet
       /\ data_cache' = data_cache
       /\ cache_dates' = cache_dates]_vars

\* ---------------------------------------------------------------------------
\* Writing the worksheet: update_sheet_from_df and update_appointment_status
\* ---------------------------------------------------------------------------

\* how a call of update_sheet_from_df goes at the API: it works, it fails
\* before worksheet.clear() (no client, open fails), or set_dataframe fails
\* after clear()
WriteOutcomes == {"ok", "fails_before_clear", "fails_after_clear"}

\* the return value of update_sheet_from_df(rows)
UpdateSheetReturns(rows, outcome) == gsheets_creds /\ rows # <<>> /\ outcome = "ok"

\* the worksheet after update_sheet_from_df(rows)
SheetAfterUpdate(rows, outcome) ==
    IF ~gsheets_creds \/ rows = <<>> \/ outcome = "fails_before_clear" THEN sheet
    ELSE IF outcome = "fails_after_clear" THEN <<>>
    ELSE rows

\* mutant: the targeted row is removed
DropRow(rows, appointment_index, new_status) ==
    [k \in 1..(Len(rows) - 1) |->
        IF k < appointment_index THEN rows[k] ELSE rows[k + 1]]

\* df.loc[appointment_index, 'Status'] = new_status on a label of the frame
SetStatus(rows, appointment_index, new_status) ==
    [rows EXCEPT ![appointment_index].Status = new_status]

\* the statuses the two quick-action buttons pass
ButtonStatuses == {"Completed", "Cancelled"}

\* A click on Complete or Cancel of the row labelled appointment_index in the
\* calendar view: update_appointment_status reads the table, sets the Status
\* cell and writes the whole table back.  The cached DataFrame is the object
\* read, so it carries the new status whether or not the write goes through.
\* After a write that worked st.rerun() ends the run; otherwise the function
\* returns True.
UpdateAppointmentStatus(appointment_index, new_status, fetch_ok, outcome) ==
    LET loaded  == GetSheetAsDf(fetch_ok)
        updated == SetStatus(loaded.rows, appointment_index, new_status)
        written == loaded.ok /\ UpdateSheetReturns(updated, outcome)
    IN  /\ gsheets_creds
        /\ appointment_index \in 1..Len(sheet)
        /\ sheet' = IF loaded.ok THEN SheetAfterUpdate(updated, outcome) ELSE sheet
        /\ data_cache' = IF loaded.ok THEN Loaded(updated) ELSE data_cache
        /\ cache_dates' = CacheDatesAfterGet(fetch_ok, FALSE)
        /\ last_op' = [op |-> "update_appointment_status", index |-> appointment_index,
                       status |-> new_status, written |-> written,
                       returned |-> IF written THEN "rerun" ELSE "True"]
        /\ UNCHANGED <<authVars, gsheets_creds, windowVars, filterVars, listVars, checkVars,
                       now, sess>>

StatusRows ==
    [Date : {Day0}, Time : {600, 630}, Duration : {30}, Status : {"Scheduled", "Completed"}]

InitStatus ==
    /\ selected_date = Day0
    /\ WindowIdle
    /\ sheet \in SeqsUpTo(StatusRows, MaxRows)
    /\ gsheets_creds = TRUE
    /\ data_cache = NoData
    /\ cache_dates = "none"
    /\ CheckIdle
    /\ RestIdle

NextStatus ==
    \E appointment_index \in 1..MaxRows, new_status \in ButtonStatuses,
       fetch_ok \in BOOLEAN, outcome \in WriteOutcomes :
        UpdateAppointmentStatus(appointment_index, new_status, fetch_ok, outcome)

SpecStatus == InitStatus /\ [][NextStatus]_vars

\* C17: a status update that goes through leaves the sheet with the same
\* number of rows in the same order; the targeted row differs from before
\* only in its Status, which is the new status, and no other row changes.
C17_StatusWriteNotRemoval ==
    [][(last_op'.op = "update_appointment_status" /\ last_op'.written) =>
          /\ Len(sheet') = Len(sheet)
          /\ \A k \in 1..Len(sheet) :
                IF k = last_op'.index
                THEN sheet'[k] = [sheet[k] EXCEPT !.Status = last_op'.status]
                ELSE sheet'[k] = sheet[k]]_vars

\* the second of two bookings was cancelled and the first is still scheduled
C17_Witness ==
    /\ last_op.op = "update_appointment_status"
    /\ last_op.written
    /\ last_op.index = 2
    /\ Len(sheet) = 2
    /\ sheet[1].Status = "Scheduled"
    /\ sheet[2].Status = "Cancelled"

\* ---------------------------------------------------------------------------
\* Scheduling a new appointment: schedule_new_appointment, save_appointment
\* ---------------------------------------------------------------------------

\* the clock ticks twice a second; strftime('%Y%m%d%H%M%S') keeps the second
TicksPerSecond == 2

\* f"APT-{datetime.now().strftime('%Y%m%d%H%M%S')}" at clock reading t
AppointmentId(t) == t \div TicksPerSecond

\* the choices of the form's Status selectbox
FormStatuses == {"Scheduled", "Confirmed", "Pending"}

\* the statuses the editor column of the appointments list accepts
EditorStatuses == {"Scheduled", "Confirmed", "Completed", "Cancelled", "No-show"}

\* validate_required_fields(required_data, ["customer_name", "service"]):
\* the service comes from a selectbox, the name is free text
RequiredFieldsMissing(customer_name) == customer_name = ""

\* the dictionary the handler builds for a submission at clock reading t
NewAppointment(appointment_date, appointment_time, duration, status, t) ==
    [ID |-> AppointmentId(t), Date |-> appointment_date, Time |-> appointment_time,
     Duration |-> duration, Status |-> status]

\* new_df of save_appointment: the table read with the new row appended, or
\* the new row alone when the read gave None
SaveFrame(existing_df, new_appointment) ==
    IF existing_df.ok THEN Append(existing_df.rows, new_appointment)
    ELSE << new_appointment >>

\* One submission of the schedule form in one session, run to its end:
\* validation, the conflict check, and for a free slot save_appointment.
ScheduleSubmit(customer_name, appointment_date, appointment_time, duration, status, check_fetch_ok, save_fetch_ok, outcome) ==
    LET invalid   == RequiredFieldsMissing(customer_name)
        loaded    == GetSheetAsDf(check_fetch_ok)
        pos       == ConflictPosition(loaded, appointment_date, appointment_time, duration)
        saving    == ~invalid /\ pos = 0
        appt      == NewAppointment(appointment_date, appointment_time, duration, status, now)
        existing  == GetSheetAsDf(save_fetch_ok)
        new_df    == SaveFrame(existing, appt)
        written   == saving /\ UpdateSheetReturns(new_df, outcome)
    IN  /\ Len(sheet) < MaxRows
        /\ candidate' = IF invalid THEN candidate
                        ELSE << [date |-> appointment_date, time |-> appointment_time,
                                 duration |-> duration] >>
        /\ df' = IF invalid THEN df ELSE loaded
        /\ scan_stop' = IF invalid THEN scan_stop ELSE pos
        /\ has_conflict' = IF invalid THEN has_conflict ELSE (pos # 0)
        /\ conflicting_booking' = IF invalid THEN conflicting_booking
                                  ELSE ReportedBooking(loaded, pos)
        /\ check_raised' = IF invalid THEN check_raised
                           ELSE CheckRaises(loaded, appointment_date, appointment_time,
                                            duration)
        /\ sheet' = IF saving THEN SheetAfterUpdate(new_df, outcome) ELSE sheet
        /\ data_cache' = IF invalid THEN data_cache
                         ELSE IF written THEN Loaded(new_df)
                         ELSE IF saving /\ existing.ok THEN existing
                         ELSE CacheAfterGet(check_fetch_ok)
        /\ cache_dates' = IF invalid THEN cache_dates
                          ELSE IF written \/ (saving /\ existing.ok) THEN "str"
                          ELSE CacheDatesAfterGet(check_fetch_ok, TRUE)
        /\ last_op' = [op |-> "schedule_new_appointment", index |-> 0, status |-> status,
                       written |-> written,
                       returned |-> IF invalid THEN "invalid"
                                    ELSE IF pos # 0 THEN "conflict"
                                    ELSE IF written THEN "saved" ELSE "not saved"]
        /\ UNCHANGED <<authVars, gsheets_creds, windowVars, filterVars, listVars, now, sess>>

\* half a second passes
Tick ==
    /\ now < MaxClock
    /\ now' = now + 1
    /\ UNCHANGED <<authVars, windowVars, filterVars, listVars, last_op, sess, sheetVars, checkVars>>

\* the times the form is submitted with
FormTimes == {600, 630}

InitSchedule ==
    /\ selected_date = Day0
    /\ WindowIdle
    /\ sheet = <<>>
    /\ gsheets_creds \in BOOLEAN
    /\ data_cache = NoData
    /\ cache_dates = "none"
    /\ CheckIdle
    /\ RestIdle

\* a submission without a customer name reads and writes nothing, whatever
\* the other fields hold
NextSchedule ==
    \/ ScheduleSubmit("", Day0, 600, 30, "Scheduled", TRUE, TRUE, "ok")
    \/ \E appointment_time \in FormTimes, status \in FormStatuses,
          check_fetch_ok \in BOOLEAN, save_fetch_ok \in BOOLEAN,
          outcome \in WriteOutcomes :
            ScheduleSubmit("Ann", Day0, appointment_time, 30, status,
                           check_fetch_ok, save_fetch_ok, outcome)
    \/ Tick

SpecSchedule == InitSchedule /\ [][NextSchedule]_vars

\* C18: the status of every stored booking is one of Scheduled, Confirmed,
\* Completed, Cancelled, No-show.
C18_StoredStatusInEnumeration ==
    \A k \in 1..Len(sheet) : sheet[k].Status \in EditorStatuses

\* ---------------------------------------------------------------------------
\* Two browser sessions submitting the schedule form against one worksheet
\* ---------------------------------------------------------------------------

\* the other session
Peer(s) == 3 - s

\* a booking made before either session submits
SeedRow == [ID |-> -1, Date |-> Day0, Time |-> 540, Duration |-> 30, Status |-> "Scheduled"]

\* what the two forms are filled with: 10:00, 10:15 or 10:30 for 30 minutes
SessionForms == [date : {Day0}, time : ApptTimes, duration : {30}, status : {"Scheduled"}]

\* the table a session's get_sheet_as_df returns; both sessions hold credentials
SessionRead(fetch_ok) == IF fetch_ok THEN Loaded(sheet) ELSE NoData

\* First part of the submit handler of session s: the fields pass validation,
\* check_scheduling_conflict reads the worksheet and decides, and for a free
\* slot the handler builds new_appointment.  saw_peer records whether the
\* table read held the peer's booking.
SessionCheck(s, fetch_ok) ==
    LET f      == sess[s].form[1]
        loaded == SessionRead(fetch_ok)
        pos    == ConflictPosition(loaded, f.date, f.time, f.duration)
        appt   == NewAppointment(f.date, f.time, f.duration, f.status, now)
        peers  == sess[Peer(s)].new_appointment
    IN  /\ sess[s].pc = "idle"
        /\ sess' = [sess EXCEPT ![s] =
                      [@ EXCEPT !.pc = IF pos # 0 THEN "done" ELSE "checked",
                                !.has_conflict = (pos # 0),
                                !.saw_peer = /\ peers # <<>>
                                             /\ \E k \in 1..Len(loaded.rows) :
                                                    loaded.rows[k] = peers[1],
                                !.new_appointment = IF pos # 0 THEN <<>> ELSE << appt >>,
                                !.cache = IF loaded.ok THEN loaded ELSE @]]
        /\ UNCHANGED <<authVars, windowVars, filterVars, listVars, now, last_op, sheetVars, checkVars>>

\* save_appointment of session s, first half: existing_df = get_sheet_as_df
SessionSaveRead(s, fetch_ok) ==
    LET existing == SessionRead(fetch_ok)
    IN  /\ sess[s].pc = "checked"
        /\ sess' = [sess EXCEPT ![s] =
                      [@ EXCEPT !.pc = "read",
                                !.existing_df = existing,
                                !.cache = IF existing.ok THEN existing ELSE @]]
        /\ UNCHANGED <<authVars, windowVars, filterVars, listVars, now, last_op, sheetVars, checkVars>>

\* save_appointment of session s, second half: update_sheet_from_df(new_df)
SessionSaveWrite(s, outcome) ==
    LET new_df  == SaveFrame(sess[s].existing_df, sess[s].new_appointment[1])
        written == UpdateSheetReturns(new_df, outcome)
    IN  /\ sess[s].pc = "read"
        /\ sheet' = SheetAfterUpdate(new_df, outcome)
        /\ sess' = [sess EXCEPT ![s] =
                      [@ EXCEPT !.pc = "done",
                                !.saved = written,
                                !.cache = IF written THEN Loaded(new_df) ELSE @]]
        /\ UNCHANGED <<authVars, windowVars, filterVars, listVars, now, last_op,
                       gsheets_creds, data_cache, cache_dates, checkVars>>

InitSessions ==
    /\ selected_date = Day0
    /\ WindowIdle
    /\ sheet \in SeqsUpTo({SeedRow}, MaxRows - 1)
    /\ gsheets_creds = TRUE
    /\ data_cache = NoData
    /\ cache_dates = "none"
    /\ CheckIdle
    /\ filter_status = "All"
    /\ filtered_df = NoFrame
    /\ date_filter = FilterFirst
    /\ end_date_filter = FilterLast
    /\ status_filter = "All"
    /\ service_filter = "All"
    /\ list_filtered_df = NoFrame
    /\ now = 0
    /\ last_op = NoOp
    /\ AuthIdle
    /\ \E f1 \in SessionForms, f2 \in SessionForms :
          sess = [s \in Sessions |->
                    [NoSubmission EXCEPT !.form = IF s = 1 THEN << f1 >> ELSE << f2 >>]]

NextSessions ==
    \/ \E s \in Sessions, fetch_ok \in BOOLEAN : SessionCheck(s, fetch_ok)
    \/ \E s \in Sessions, fetch_ok \in BOOLEAN : SessionSaveRead(s, fetch_ok)
    \/ \E s \in Sessions, outcome \in WriteOutcomes : SessionSaveWrite(s, outcome)
    \/ Tick

SpecSessions == InitSessions /\ [][NextSessions]_vars

\* C19: no two rows of the appointments sheet carry the same ID.
C19_UniqueIds ==
    \A j \in 1..Len(sheet) : \A k \in 1..Len(sheet) :
        j # k => sheet[j].ID # sheet[k].ID

\* two stored bookings are both active and their intervals overlap
DoubleBooked ==
    \E j \in 1..Len(sheet) : \E k \in 1..Len(sheet) :
        /\ j # k
        /\ sheet[j].Date = sheet[k].Date
        /\ sheet[j].Status \notin {"Cancelled", "No-show"}
        /\ sheet[k].Status \notin {"Cancelled", "No-show"}
        /\ sheet[j].Time < sheet[k].Time + sheet[k].Duration
        /\ sheet[k].Time < sheet[j].Time + sheet[j].Duration

\* the two forms ask for overlapping intervals
FormsOverlap ==
    /\ sess[1].form[1].time < sess[2].form[1].time + sess[2].form[1].duration
    /\ sess[2].form[1].time < sess[1].form[1].time + sess[1].form[1].duration

\* C20: nothing keeps two unsynchronized callers from both persisting
\* overlapping candidates; when both have persisted, each check had returned
\* no conflict and neither had read the other's booking.
C20_BothPersistOnlyUnseen ==
    (FormsOverlap /\ sess[1].saved /\ sess[2].saved) =>
        \A s \in Sessions : ~sess[s].has_conflict /\ ~sess[s].saw_peer

\* both checks returned no conflict for overlapping candidates, both callers
\* persisted, and the sheet holds the double booking
C20_Witness ==
    /\ FormsOverlap
    /\ sess[1].form[1].time # sess[2].form[1].time
    /\ \A s \in Sessions : sess[s].pc = "done" /\ ~sess[s].has_conflict /\ sess[s].saved
    /\ DoubleBooked
    /\ \E j \in 1..Len(sheet) : sheet[j] = sess[1].new_appointment[1]
    /\ \E k \in 1..Len(sheet) : sheet[k] = sess[2].new_appointment[1]

\* ---------------------------------------------------------------------------
\* Claims about the write paths
\* ---------------------------------------------------------------------------

\* C21: a submission that fails validation or whose check reports a conflict
\* does not save: the appointments sheet and its cache entry are left as
\* they were.
C21_RejectedSubmissionLeavesSheetAndCache ==
    [][(/\ last_op'.op = "schedule_new_appointment"
        /\ last_op'.returned \in {"invalid", "conflict"}) =>
          /\ sheet' = sheet
          /\ data_cache' = data_cache
          /\ cache_dates' = cache_dates]_vars

\* ---------------------------------------------------------------------------
\* Login, logout and the authentication gate (utils/auth.py, app.py, login.py)
\* ---------------------------------------------------------------------------

\* "session_timeout": 30 minutes
SessionTimeout == 30

\* timedelta(days=30), in minutes
RememberMinutes == 30 * 24 * 60

\* the keys init_session_state gives a default
DefaultKeys == {"logged_in", "user_id", "user_name", "user_email", "user_role",
                "login_time", "last_activity", "current_page", "notifications",
                "theme", "data_cache", "sync_status"}

\* every key the modelled scripts put into st.session_state
SessionKeys == DefaultKeys \cup {"config", "last_login", "session_expiry", "gsheets_creds"}

\* mutant: the cache and the credentials survive a logout
KeysToClearButData == {"logged_in", "user_email", "user_name", "user_role",
                       "login_time", "session_expiry", "notifications"}

\* keys_to_clear of logout_user
KeysToClear == {"logged_in", "user_email", "user_name", "user_role",
                "login_time", "session_expiry", "gsheets_creds",
                "data_cache", "notifications"}

\* load_config: the config dictionary is created when absent
LoadConfig(keys) == keys \cup {"config"}

\* init_session_state: every missing default key gets its default
InitSessionKeys(keys) == keys \cup DefaultKeys
InitSessionValues(keys, vals, t) ==
    [vals EXCEPT !.logged_in = IF "logged_in" \in keys THEN @ ELSE FALSE,
                 !.user_email = IF "user_email" \in keys THEN @ ELSE "None",
                 !.login_time = IF "login_time" \in keys THEN @ ELSE -1,
                 !.last_activity = IF "last_activity" \in keys THEN @ ELSE t]

\* logout_user: each key of keys_to_clear that is present is deleted
LogoutKeys(keys) == keys \ KeysToClear
LogoutValues(keys, vals) ==
    [vals EXCEPT !.logged_in = IF "logged_in" \in LogoutKeys(keys) THEN @ ELSE FALSE,
                 !.user_email = IF "user_email" \in LogoutKeys(keys) THEN @ ELSE "None",
                 !.login_time = IF "login_time" \in LogoutKeys(keys) THEN @ ELSE -1,
                 !.session_expiry = IF "session_expiry" \in LogoutKeys(keys) THEN @ ELSE -1]

\* mutant: a session never expires
ExpiredNever(t, expiry) == FALSE

\* datetime.now() > st.session_state.session_expiry
Expired(t, expiry) == t > expiry

\* check_session_validity at time t: its return value and the session state
\* it leaves (logged_out: it called logout_user)
CheckSessionValidity(keys, vals, t) ==
    IF ~("logged_in" \in keys /\ vals.logged_in)
    THEN [result |-> FALSE, logged_out |-> FALSE, keys |-> keys, vals |-> vals]
    ELSE IF "session_expiry" \in keys /\ Expired(t, vals.session_expiry)
    THEN [result |-> FALSE, logged_out |-> TRUE,
          keys |-> LogoutKeys(keys), vals |-> LogoutValues(keys, vals)]
    ELSE [result |-> TRUE, logged_out |-> FALSE,
          keys |-> keys \cup {"last_activity"},
          vals |-> [vals EXCEPT !.last_activity = t]]

\* the passwords typed into the form, and hashlib.sha256(p).hexdigest() of each
Passwords == {"", "demo123", "admin123"}
HashPassword(password) == << "sha256", password >>

\* DEMO_USERS
DemoUsers ==
    [email \in {"demo@business.com", "admin@business.com"} |->
        [password_hash |-> IF email = "demo@business.com"
                           THEN HashPassword("demo123") ELSE HashPassword("admin123")]]

\* the addresses typed into the form; validate_email accepts those of the
\* form local@domain.tld
Emails == {"", "demo", "demo@business.com", "admin@business.com", "guest@business.com"}
ValidateEmail(email) == email \in {"demo@business.com", "admin@business.com",
                                   "guest@business.com"}

\* mutant: a known email is enough
AuthenticateUserAnyPassword(email, password) == email \in DOMAIN DemoUsers

\* authenticate_user: "success"
AuthenticateUser(email, password) ==
    IF email \in DOMAIN DemoUsers
    THEN DemoUsers[email].password_hash = HashPassword(password)
    ELSE FALSE

\* create_user_session at time t
CreateSessionKeys(keys) ==
    keys \cup {"logged_in", "user_email", "user_name", "user_role", "login_time",
               "last_login", "session_expiry"}
CreateSessionValues(vals, email, remember_me, t) ==
    [vals EXCEPT !.logged_in = TRUE,
                 !.user_email = email,
                 !.login_time = t,
                 !.last_login = t,
                 !.session_expiry = IF remember_me THEN t + RememberMinutes
                                    ELSE t + SessionTimeout]

\* "gsheets_creds" in st.session_state, for the worksheet functions
CredsFollowKeys == gsheets_creds' = ("gsheets_creds" \in ss_keys')

\* what a run records about a call of check_session_validity
AfterCheck(chk, keys_before, next_pc) ==
    [auth_run EXCEPT
        !.pc = next_pc,
        !.last_call = IF chk.logged_out THEN "logout_user" ELSE "check_session_validity",
        !.last_check = IF chk.result THEN "True" ELSE "False",
        !.cleared = IF chk.logged_out THEN keys_before \cap KeysToClear ELSE @,
        !.checked_valid = @ \/ chk.result]

\* A run of app.py up to its gate: load_config, init_session_state, then
\* "not logged_in or not check_session_validity()" chooses between the login
\* form and the sidebar.
AppStart ==
    LET keys1 == InitSessionKeys(LoadConfig(ss_keys))
        vals1 == InitSessionValues(ss_keys, ss, clock)
        chk   == CheckSessionValidity(keys1, vals1, clock)
    IN  /\ IF vals1.logged_in
           THEN /\ ss_keys' = chk.keys
                /\ ss' = chk.vals
                /\ auth_run' = AfterCheck(chk, keys1,
                                          IF chk.result THEN "sidebar" ELSE "login_form")
           ELSE /\ ss_keys' = keys1
                /\ ss' = vals1
                /\ auth_run' = [auth_run EXCEPT !.pc = "login_form",
                                                !.last_call = "init_session_state",
                                                !.last_check = "none"]
        /\ CredsFollowKeys
        /\ data_cache' = IF "data_cache" \in ss_keys' THEN data_cache ELSE NoData
        /\ UNCHANGED <<clock, advances, windowVars, filterVars, listVars, writeVars,
                       sheet, cache_dates, checkVars>>

\* A page script whose main is wrapped with require_auth is run: the body
\* runs when check_session_validity returns True, otherwise st.stop().
PageRun ==
    LET chk == CheckSessionValidity(ss_keys, ss, clock)
    IN  /\ auth_run.pc # "rerun"
        /\ ss_keys' = chk.keys
        /\ ss' = chk.vals
        /\ auth_run' = AfterCheck(chk, ss_keys,
                                  IF chk.result THEN "page_body" ELSE "stopped")
        /\ CredsFollowKeys
        /\ data_cache' = IF "data_cache" \in ss_keys' THEN data_cache ELSE NoData
        /\ UNCHANGED <<clock, advances, windowVars, filterVars, listVars, writeVars,
                       sheet, cache_dates, checkVars>>

\* The Login button of show_login: both fields filled, a well-formed email,
\* then authenticate_user and on success create_user_session and st.rerun().
LoginSubmit(email, password, remember_me) ==
    LET tried   == email # "" /\ password # "" /\ ValidateEmail(email)
        success == tried /\ AuthenticateUser(email, password)
    IN  /\ auth_run.pc = "login_form"
        /\ ss_keys' = IF success THEN CreateSessionKeys(ss_keys) ELSE ss_keys
        /\ ss' = IF success THEN CreateSessionValues(ss, email, remember_me, clock) ELSE ss
        /\ auth_run' = [auth_run EXCEPT
              !.pc = IF success THEN "rerun" ELSE "login_form",
              !.last_call = IF success THEN "create_user_session"
                            ELSE IF tried THEN "authenticate_user" ELSE "show_login",
              !.last_check = "none",
              !.login = IF success
                        THEN << [email |-> email, password |-> password,
                                 remember_me |-> remember_me] >>
                        ELSE @,
              !.checked_valid = IF success THEN FALSE ELSE @]
        /\ UNCHANGED <<clock, advances, windowVars, filterVars, listVars, writeVars,
                       sheetVars, checkVars>>

\* The Logout button of the sidebar: logout_user, then st.rerun()
LogoutClick ==
    /\ auth_run.pc = "sidebar"
    /\ ss_keys' = LogoutKeys(ss_keys)
    /\ ss' = LogoutValues(ss_keys, ss)
    /\ auth_run' = [auth_run EXCEPT !.pc = "rerun", !.last_call = "logout_user",
                                    !.last_check = "none",
                                    !.cleared = ss_keys \cap KeysToClear]
    /\ CredsFollowKeys
    /\ data_cache' = IF "data_cache" \in ss_keys' THEN data_cache ELSE NoData
    /\ UNCHANGED <<clock, advances, windowVars, filterVars, listVars, writeVars,
                   sheet, cache_dates, checkVars>>

\* The sidebar's upload of working credentials, or its Reconnect button,
\* each followed by st.rerun(); a failed upload changes nothing
ConnectSheets ==
    /\ auth_run.pc = "sidebar"
    /\ ss_keys' = IF "gsheets_creds" \in ss_keys THEN ss_keys \ {"gsheets_creds"}
                  ELSE ss_keys \cup {"gsheets_creds"}
    /\ auth_run' = [auth_run EXCEPT !.pc = "rerun", !.last_call = "show_sidebar",
                                    !.last_check = "none"]
    /\ CredsFollowKeys
    /\ UNCHANGED <<ss, clock, advances, windowVars, filterVars, listVars, writeVars,
                   sheet, data_cache, cache_dates, checkVars>>

\* time passes between two runs
ClockSteps == {1, SessionTimeout, RememberMinutes}
AdvanceClock(minutes) ==
    /\ auth_run.pc # "rerun"
    /\ advances < MaxAdvances
    /\ advances' = advances + 1
    /\ clock' = clock + minutes
    /\ UNCHANGED <<ss_keys, ss, auth_run, windowVars, filterVars, listVars, writeVars,
                   sheetVars, checkVars>>

InitAuth ==
    /\ selected_date = Day0
    /\ WindowIdle
    /\ sheet = <<>>
    /\ gsheets_creds = FALSE
    /\ data_cache = NoData
    /\ cache_dates = "none"
    /\ CheckIdle
    /\ RestIdle

NextAuth ==
    \/ AppStart
    \/ PageRun
    \/ \E email \in Emails, password \in Passwords, remember_me \in BOOLEAN :
          LoginSubmit(email, password, remember_me)
    \/ LogoutClick
    \/ ConnectSheets
    \/ \E minutes \in ClockSteps : AdvanceClock(minutes)

SpecAuth == InitAuth /\ [][NextAuth]_vars

\* the session is logged in
LoggedIn == "logged_in" \in ss_keys /\ ss.logged_in

\* C22: right after logout_user none of the nine keys it names is in the
\* session state, every other key is present or absent as before with its
\* value, and check_session_validity returns True only in a session that is
\* logged in, which only a successful login makes it.
C22_LogoutTearsDown ==
    [][/\ auth_run'.last_call = "logout_user" =>
            /\ ss_keys' \cap {"logged_in", "user_email", "user_name", "user_role",
                              "login_time", "session_expiry", "gsheets_creds",
                              "data_cache", "notifications"} = {}
            /\ ~gsheets_creds'
            /\ \A k \in {"user_id", "last_activity", "current_page", "theme",
                         "sync_status", "config", "last_login"} :
                    (k \in ss_keys') = (k \in ss_keys)
            /\ ss'.last_activity = ss.last_activity
            /\ ss'.last_login = ss.last_login
       /\ auth_run'.last_check = "True" => LoggedIn
       /\ (~LoggedIn /\ "logged_in" \in ss_keys' /\ ss'.logged_in) =>
            auth_run'.last_call = "create_user_session"]_vars

\* a logged-in session with credentials connected has just been logged out
C22_Witness ==
    /\ auth_run.last_call = "logout_user"
    /\ auth_run.pc = "rerun"
    /\ {"logged_in", "session_expiry", "gsheets_creds", "data_cache"} \subseteq auth_run.cleared
    /\ "last_activity" \in ss_keys
    /\ ss.last_login >= 0

\* ---------------------------------------------------------------------------
\* Submissions around midnight, with the worksheet API working throughout
\* ---------------------------------------------------------------------------

\* 23:30 on the first date and 00:00 on the second
MidnightSlots == { [date |-> Day0, time |-> 23 * 60 + 30], [date |-> Day1, time |-> 0] }

InitMidnight ==
    /\ selected_date = Day0
    /\ WindowIdle
    /\ sheet = <<>>
    /\ gsheets_creds = TRUE
    /\ data_cache = NoData
    /\ cache_dates = "none"
    /\ CheckIdle
    /\ RestIdle

NextMidnight ==
    \/ \E slot \in MidnightSlots, duration \in {30, 60}, status \in FormStatuses :
          ScheduleSubmit("Ann", slot.date, slot.time, duration, status, TRUE, TRUE, "ok")
    \/ Tick

SpecMidnight == InitMidnight /\ [][NextMidnight]_vars

\* the stored booking at position k, as an interval of absolute minutes
StoredStart(k) == Combine(sheet[k].Date, sheet[k].Time)
StoredEnd(k) == StoredStart(k) + sheet[k].Duration

\* C23: no two stored appointments whose statuses are both outside
\* {Cancelled, No-show} overlap, appointments running past midnight included.
C23_NoActiveOverlapStored ==
    \A j \in 1..Len(sheet) : \A k \in 1..Len(sheet) :
        (/\ j # k
         /\ sheet[j].Status \notin {"Cancelled", "No-show"}
         /\ sheet[k].Status \notin {"Cancelled", "No-show"}) =>
            ~(StoredStart(j) < StoredEnd(k) /\ StoredStart(k) < StoredEnd(j))

\* C24: whenever save_appointment returns True the sheet holds every row it
\* held before, unchanged and in order, followed by exactly one new row,
\* also when the read of the sheet before it returned None.
C24_SaveAppends ==
    [][(last_op'.op = "schedule_new_appointment" /\ last_op'.written) =>
          /\ Len(sheet') = Len(sheet) + 1
          /\ SubSeq(sheet', 1, Len(sheet)) = sheet
          /\ sheet'[Len(sheet')].Status = last_op'.status]_vars

\* ---------------------------------------------------------------------------
\* Saving the appointments list editor (show_appointments_list, Save Changes)
\* ---------------------------------------------------------------------------

\* what the user does in st.data_editor before saving: nothing, or the
\* Status cell of the first row shown is set to Cancelled
EditorEdits == {"none", "cancel first"}

\* edited_df for the rows shown
EditedRows(rows, edit) ==
    IF edit = "cancel first" /\ rows # <<>>
    THEN [rows EXCEPT ![1].Status = "Cancelled"]
    ELSE rows

\* A click on Save Changes: the run reads the table, filters a copy with the
\* controls as they stand, and writes edited_df, the filtered rows as
\* edited, as the whole worksheet.  With no or an empty table the editor and
\* the button are not there.
SaveChanges(edit, fetch_ok, outcome) ==
    LET loaded  == GetSheetAsDf(fetch_ok)
        shown   == loaded.ok /\ loaded.rows # <<>>
        frame   == ListFilter(FrameOf(loaded.rows), date_filter, end_date_filter,
                              status_filter, service_filter)
        edited  == EditedRows(frame.rows, edit)
        written == shown /\ UpdateSheetReturns(edited, outcome)
    IN  /\ gsheets_creds
        /\ list_filtered_df' = IF shown THEN frame ELSE NoFrame
        /\ sheet' = IF shown THEN SheetAfterUpdate(edited, outcome) ELSE sheet
        /\ data_cache' = IF written THEN Loaded(edited) ELSE CacheAfterGet(fetch_ok)
        /\ cache_dates' = IF written THEN "date" ELSE CacheDatesAfterGet(fetch_ok, FALSE)
        /\ last_op' = [op |-> "save_changes", index |-> 0, status |-> edit,
                       written |-> written,
                       returned |-> IF written THEN "rerun" ELSE "not saved"]
        /\ UNCHANGED <<authVars, windowVars, filterVars, date_filter, end_date_filter,
                       status_filter, service_filter, now, sess, gsheets_creds, checkVars>>

InitList ==
    /\ sheet \in FilterSheets
    /\ gsheets_creds = TRUE
    /\ data_cache = NoData
    /\ cache_dates = "none"
    /\ CheckIdle
    /\ selected_date = Day0
    /\ WindowIdle
    /\ filter_status = "All"
    /\ filtered_df = NoFrame
    /\ list_filtered_df = NoFrame
    /\ WriteIdle
    /\ AuthIdle
    /\ date_filter = FilterFirst
    /\ end_date_filter \in {Day0, FilterLast}
    /\ status_filter \in {"All", "Cancelled"}
    /\ service_filter \in ServiceOptions(sheet)

NextList ==
    \/ \E fetch_ok \in BOOLEAN : ShowAppointmentsList(fetch_ok)
    \/ \E edit \in EditorEdits, fetch_ok \in BOOLEAN, outcome \in WriteOutcomes :
          SaveChanges(edit, fetch_ok, outcome)

SpecList == InitList /\ [][NextList]_vars

\* row k of the sheet is hidden from the editor by the active filters
HiddenByFilters(k) ==
    ~(/\ DatedWithin(k, date_filter, end_date_filter)
      /\ Selected(sheet[k].Status, status_filter)
      /\ Selected(sheet[k].Service, service_filter))

\* C25: after a successful Save Changes every row the date, status or
\* service filter hid from the editor is still in the sheet, unchanged.
C25_SaveKeepsHiddenRows ==
    [][(last_op'.op = "save_changes" /\ last_op'.written) =>
          \A k \in 1..Len(sheet) :
              HiddenByFilters(k) => \E j \in 1..Len(sheet') : sheet'[j] = sheet[k]]_vars

\* ---------------------------------------------------------------------------
\* update_sheet_from_df on its own
\* ---------------------------------------------------------------------------

\* update_sheet_from_df("appointments", rows): False without credentials,
\* without a client or for an empty DataFrame; otherwise worksheet.clear(),
\* then set_dataframe, then the cache entry; any exception returns False
\* with whatever was done so far left in place.
UpdateSheetFromDf(rows, outcome) ==
    /\ sheet' = SheetAfterUpdate(rows, outcome)
    /\ data_cache' = IF UpdateSheetReturns(rows, outcome) THEN Loaded(rows) ELSE data_cache
    /\ cache_dates' = IF UpdateSheetReturns(rows, outcome) THEN "str" ELSE cache_dates
    /\ last_op' = [op |-> "update_sheet_from_df", index |-> 0, status |-> outcome,
                   written |-> UpdateSheetReturns(rows, outcome),
                   returned |-> IF UpdateSheetReturns(rows, outcome) THEN "True" ELSE "False"]
    /\ UNCHANGED <<authVars, gsheets_creds, windowVars, filterVars, listVars, checkVars,
                   now, sess>>

\* get_sheet_as_df("appointments") on its own
ReadSheet(fetch_ok) ==
    /\ data_cache' = CacheAfterGet(fetch_ok)
    /\ cache_dates' = CacheDatesAfterGet(fetch_ok, FALSE)
    /\ last_op' = [op |-> "get_sheet_as_df", index |-> 0, status |-> "none",
                   written |-> FALSE,
                   returned |-> IF GetSheetAsDf(fetch_ok).ok THEN "df" ELSE "None"]
    /\ UNCHANGED <<authVars, sheet, gsheets_creds, windowVars, filterVars, listVars,
                   checkVars, now, sess>>

InitUpdate ==
    /\ selected_date = Day0
    /\ WindowIdle
    /\ sheet \in SeqsUpTo(StatusRows, MaxRows)
    /\ gsheets_creds \in BOOLEAN
    /\ data_cache = NoData
    /\ cache_dates = "none"
    /\ CheckIdle
    /\ RestIdle

NextUpdate ==
    \/ \E rows \in SeqsUpTo(StatusRows, MaxRows), outcome \in WriteOutcomes :
          UpdateSheetFromDf(rows, outcome)
    \/ \E fetch_ok \in BOOLEAN : ReadSheet(fetch_ok)

SpecUpdate == InitUpdate /\ [][NextUpdate]_vars

\* C26: whenever update_sheet_from_df returns False the worksheet holds the
\* rows it held before the call and the cache entry of the sheet is unchanged.
C26_FailedUpdateLeavesSheet ==
    [][(last_op'.op = "update_sheet_from_df" /\ last_op'.returned = "False") =>
          (sheet' = sheet /\ data_cache' = data_cache)]_vars

\* ---------------------------------------------------------------------------
\* Two sessions saving at once
\* ---------------------------------------------------------------------------

\* session s's save_appointment read the table and returned True
SavedAfterRead(s) == sess[s].saved /\ sess[s].existing_df.ok

\* C27: when both sessions' save_appointment calls, for different
\* appointments, have read the sheet and returned True, the sheet holds both
\* new appointments, whatever the order of their reads and writes.
C27_NoLostUpdate ==
    (SavedAfterRead(1) /\ SavedAfterRead(2) /\ sess[1].form # sess[2].form) =>
        \A s \in Sessions :
            \E k \in 1..Len(sheet) : sheet[k] = sess[s].new_appointment[1]

\* ---------------------------------------------------------------------------
\* Session expiry and the authentication gate
\* ---------------------------------------------------------------------------

\* the lifetime create_user_session gave the session of the last login
GrantedLifetime(run) ==
    IF run.login[1].remember_me THEN RememberMinutes ELSE SessionTimeout

\* the step is a call of check_session_validity by a logged-in session
ChecksLoggedIn == LoggedIn /\ clock' = clock /\ auth_run'.last_check # "none"

\* C28: session_expiry is login time + 30 days with remember-me, otherwise
\* + session_timeout minutes; nothing but a new login changes it, valid checks
\* only set last_activity; and every check made strictly after session_expiry
\* returns False and logs the user out, however many valid checks came before.
C28_ExpiryEnforcedNeverExtended ==
    [][/\ LoggedIn' =>
            /\ auth_run'.login # <<>>
            /\ ss'.session_expiry = ss'.login_time + GrantedLifetime(auth_run')
       /\ (LoggedIn /\ LoggedIn') =>
            (ss'.session_expiry = ss.session_expiry /\ ss'.login_time = ss.login_time)
       /\ (ChecksLoggedIn /\ clock > ss.session_expiry) =>
            /\ auth_run'.last_check = "False"
            /\ auth_run'.last_call = "logout_user"
            /\ "logged_in" \notin ss_keys'
       /\ (ChecksLoggedIn /\ clock <= ss.session_expiry) =>
            /\ auth_run'.last_check = "True"
            /\ ss'.last_activity = clock]_vars

\* a session that had passed a valid check was logged out by a later check
C28_Witness ==
    /\ auth_run.last_call = "logout_user"
    /\ auth_run.last_check = "False"
    /\ auth_run.checked_valid
    /\ ~LoggedIn

\* the password DEMO_USERS stores the hash of, for a known email
PasswordOf(email) == IF email = "demo@business.com" THEN "demo123" ELSE "admin123"

\* C29: the body of a page wrapped with require_auth runs only in a session
\* that is logged in and not expired, and a session is logged in only through
\* a login whose email is known and whose password is that user's.
C29_AuthenticationGate ==
    [][/\ (auth_run'.pc = "page_body" /\ clock' = clock) =>
            /\ "logged_in" \in ss_keys' /\ ss'.logged_in
            /\ "session_expiry" \in ss_keys' /\ clock' <= ss'.session_expiry
       /\ (~LoggedIn /\ LoggedIn') =>
            /\ auth_run.pc = "login_form"
            /\ auth_run'.last_call = "create_user_session"
            /\ auth_run'.login # <<>>
            /\ auth_run'.login[1].email \in {"demo@business.com", "admin@business.com"}
            /\ auth_run'.login[1].password = PasswordOf(auth_run'.login[1].email)
            /\ ss'.user_email = auth_run'.login[1].email]_vars

\* a page body is running for a logged-in session
C29_Witness ==
    /\ auth_run.pc = "page_body"
    /\ auth_run.last_check = "True"
    /\ LoggedIn
    /\ ss.user_email = "admin@business.com"

\* ---------------------------------------------------------------------------
\* The return value of update_appointment_status
\* ---------------------------------------------------------------------------

\* C30: update_appointment_status returns True only if the new status was
\* written to the sheet; when the sheet cannot be loaded or
\* update_sheet_from_df returns False it returns False and the sheet is
\* unchanged.
C30_TrueOnlyIfWritten ==
    [][last_op'.op = "update_appointment_status" =>
          /\ last_op'.returned = "True" => last_op'.written
          /\ ~last_op'.written => (last_op'.returned = "False" /\ sheet' = sheet)]_vars

====
